---- MODULE Spec2Model ----
(***************************************************************************)
(* pngme: the chunk type code (chunk_type.rs), the chunk codec (chunk.rs), *)
(* the chunk container (png.rs) and the command line driver (main.rs).     *)
(*                                                                         *)
(* A byte is a number in 0..255.  A string is a sequence of Unicode code   *)
(* points; its byte encoding is UTF-8.  A u32 is kept as two 16 bit halves *)
(* [hi, lo] so that every intermediate value stays below 2^31; usize       *)
(* values stay plain naturals.                                             *)
(***************************************************************************)
EXTENDS Naturals, Sequences, FiniteSets

VARIABLES
    call,     \* the operation or command that ran last ("none" before any)
    arg,      \* its arguments
    ret,      \* what it returned
    chunks,   \* the chunk sequence of the container (Png) in memory
    before,   \* the container and the file as they were when the call began
    prev,     \* the container call before the last one: its call, arg, before
    file,     \* the bytes of the backing file
    wrote     \* whether the last command wrote to the file

vars == <<call, arg, ret, chunks, before, prev, file, wrote>>

(***************************************************************************)
(* Bounds of the model.                                                    *)
(***************************************************************************)
MaxStrLen == 5
MaxData == 2
MaxTrail == 2
MaxChunks == 3

(***************************************************************************)
(* u8 / u32 arithmetic.                                                    *)
(***************************************************************************)
Byte == 0..255

RECURSIVE XorBits(_, _, _)
XorBits(a, b, n) ==
    IF n = 0 THEN 0
    ELSE (((a % 2) + (b % 2)) % 2) + 2 * XorBits(a \div 2, b \div 2, n - 1)

Xor16(a, b) == XorBits(a, b, 16)

U32(h, l) == [hi |-> h, lo |-> l]

Xor32(u, v) == U32(Xor16(u.hi, v.hi), Xor16(u.lo, v.lo))

Shr1(u) == U32(u.hi \div 2, (u.lo \div 2) + (u.hi % 2) * 32768)

Shr8(u) == U32(u.hi \div 256, (u.lo \div 256) + (u.hi % 256) * 256)

\* `n as u32` for a usize n: the low 32 bits
AsU32(n) == U32((n \div 65536) % 65536, n % 65536)

\* `u as usize`.  Values of 2^31 and more are clamped to 2^31 - 1: a usize is
\* only compared with, or used to cut, sequences far shorter than that
AsUsize(u) == IF u.hi < 32768 THEN u.hi * 65536 + u.lo ELSE 2147483647

\* u32::to_be_bytes
ToBeBytes(u) == <<u.hi \div 256, u.hi % 256, u.lo \div 256, u.lo % 256>>

\* u32::from_be_bytes
FromBeBytes(b) == U32(b[1] * 256 + b[2], b[3] * 256 + b[4])

\* u32::from_le_bytes
FromLeBytes(b) == U32(b[4] * 256 + b[3], b[2] * 256 + b[1])

(***************************************************************************)
(* CRC-32/ISO-HDLC (crc::CRC_32_ISO_HDLC): reflected, polynomial           *)
(* 0xEDB88320 (reflected form of 0x04C11DB7), init and xorout 0xFFFFFFFF.  *)
(***************************************************************************)
CrcPoly == U32(60856, 33568)
CrcOnes == U32(65535, 65535)

CrcStep(c) == IF c.lo % 2 = 1 THEN Xor32(Shr1(c), CrcPoly) ELSE Shr1(c)

RECURSIVE CrcBits(_, _)
CrcBits(c, n) == IF n = 0 THEN c ELSE CrcStep(CrcBits(c, n - 1))

\* the byte-wise lookup table the crc crate derives from the algorithm
CrcTable == [i \in Byte |-> CrcBits(U32(0, i), 8)]

CrcByte(c, b) == Xor32(Shr8(c), CrcTable[XorBits(c.lo % 256, b, 8)])

\* the 32 bit register values
Register == [hi : 0..65535, lo : 0..65535]

\* the register c after the bytes from index i on
RECURSIVE CrcUpdate(_, _, _)
CrcUpdate(c, bytes, i) ==
    IF c \in Register /\ i <= Len(bytes)
    THEN CrcUpdate(CrcByte(c, bytes[i]), bytes, i + 1)
    ELSE c

\* Crc::<u32>::checksum
Checksum(bytes) == Xor32(CrcUpdate(CrcOnes, bytes, 1), CrcOnes)

(***************************************************************************)
(* Sequence helpers (iterator adaptors of the source).                     *)
(***************************************************************************)
Min(a, b) == IF a < b THEN a ELSE b

\* iter().skip(n)
Skip(s, n) == IF n >= Len(s) THEN <<>> ELSE SubSeq(s, n + 1, Len(s))

\* iter().take(n)
Take(s, n) == SubSeq(s, 1, Min(n, Len(s)))

\* iter().rev()
Rev(s) == [i \in 1..Len(s) |-> s[Len(s) + 1 - i]]

RECURSIVE SeqsUpTo(_, _)
SeqsUpTo(S, n) ==
    IF n = 0 THEN {<<>>}
    ELSE LET shorter == SeqsUpTo(S, n - 1)
         IN  shorter \cup {Append(s, x) : s \in {t \in shorter : Len(t) = n - 1}, x \in S}

(***************************************************************************)
(* chunk_type.rs                                                           *)
(***************************************************************************)
IsAsciiUppercase(b) == b \in 65..90
IsAsciiLowercase(b) == b \in 97..122

\* String::from_utf8_lossy, for input whose well formed sequences are one or
\* two bytes long (code points below U+0800): an ASCII byte is its own
\* character, a lead byte 0xC2..0xDF with a continuation byte decodes to its
\* code point, any other byte becomes U+FFFD
RECURSIVE FromUtf8Lossy(_)
FromUtf8Lossy(bytes) ==
    IF bytes = <<>> THEN <<>>
    ELSE LET b == Head(bytes)
         IN  IF b < 128 THEN <<b>> \o FromUtf8Lossy(Tail(bytes))
             ELSE IF b \in 194..223 /\ Len(bytes) >= 2 /\ bytes[2] \in 128..191
                  THEN <<(b - 192) * 64 + (bytes[2] - 128)>>
                       \o FromUtf8Lossy(Tail(Tail(bytes)))
                  ELSE <<65533>> \o FromUtf8Lossy(Tail(bytes))

\* str::bytes: UTF-8 of the code points below U+0800
RECURSIVE StrBytes(_)
StrBytes(s) ==
    IF s = <<>> THEN <<>>
    ELSE LET c == Head(s)
         IN  (IF c < 128 THEN <<c>> ELSE <<192 + (c \div 64), 128 + (c % 64)>>)
             \o StrBytes(Tail(s))

Ok(v) == [ok |-> TRUE, val |-> v]
Err(e) == [ok |-> FALSE, err |-> e]
\* Option: None, or <<x>> for Some(x); also the unit value and "nothing yet"
None == <<>>

InvalidChunkType(text) == [kind |-> "InvalidChunkType", text |-> text]

\* a validation that also lets ASCII digits through (is_ascii_alphanumeric)
ChunkTypeTryFromAlnum(bytes) ==
    IF \A i \in 1..4 : IsAsciiLowercase(bytes[i]) \/ IsAsciiUppercase(bytes[i])
                       \/ bytes[i] \in 48..57
    THEN Ok(bytes)
    ELSE Err(InvalidChunkType(FromUtf8Lossy(bytes)))

\* impl TryFrom<[u8; 4]> for ChunkType
ChunkTypeTryFrom(bytes) ==
    LET all_ascii_chars ==
            \A i \in 1..4 : IsAsciiLowercase(bytes[i]) \/ IsAsciiUppercase(bytes[i])
    IN  IF all_ascii_chars THEN Ok(bytes)
        ELSE Err(InvalidChunkType(FromUtf8Lossy(bytes)))

\* impl TryFrom<Vec<u8>> for ChunkType
ChunkTypeTryFromVec(bytes) ==
    IF Len(bytes) # 4 THEN Err(InvalidChunkType(FromUtf8Lossy(bytes)))
    ELSE ChunkTypeTryFrom(bytes)

\* impl FromStr for ChunkType
ChunkTypeFromStr(s) == ChunkTypeTryFromVec(StrBytes(s))

\* ChunkType::bytes
TypeBytes(t) == t

\* a textual form that folds the letters to lower case
ToStringLowercase(t) ==
    FromUtf8Lossy([i \in 1..Len(t) |-> IF IsAsciiUppercase(t[i]) THEN t[i] + 32 ELSE t[i]])

\* impl Display for ChunkType
ToString(t) == FromUtf8Lossy(t)

IsCritical(t) == IsAsciiUppercase(t[1])
IsPublic(t) == IsAsciiUppercase(t[2])
IsReservedBitValid(t) == IsAsciiUppercase(t[3])
IsSafeToCopy(t) == IsAsciiLowercase(t[4])
\* a validity that looks at the first byte instead of the third
IsValidFirstByte(t) == IsAsciiUppercase(t[1])
IsValid(t) == IsReservedBitValid(t)

Flags(t) ==
    [is_critical |-> IsCritical(t), is_public |-> IsPublic(t),
     is_reserved_bit_valid |-> IsReservedBitValid(t),
     is_safe_to_copy |-> IsSafeToCopy(t), is_valid |-> IsValid(t)]

(***************************************************************************)
(* chunk.rs                                                                *)
(***************************************************************************)
\* Chunk::crc_checksum
CrcChecksum(chunk_type, data) == Checksum(TypeBytes(chunk_type) \o data)

\* Chunk::new
ChunkNew(chunk_type, data) ==
    [chunk_type |-> chunk_type, data |-> data, crc |-> CrcChecksum(chunk_type, data)]

\* Chunk::length, Chunk::crc, Chunk::chunk_type
Length(c) == Len(c.data)
Crc(c) == c.crc
ChunkTypeOf(c) == c.chunk_type

\* a length written with to_le_bytes
AsBytesLeLength(c) ==
    Rev(ToBeBytes(AsU32(Len(c.data)))) \o TypeBytes(c.chunk_type) \o c.data
        \o ToBeBytes(c.crc)

\* Chunk::data_as_string: std::str::from_utf8 of the payload (for payloads
\* whose well formed sequences are at most two bytes long, where the lossy
\* decoding holds U+FFFD exactly when the bytes are not UTF-8)
DataAsString(c) ==
    LET s == FromUtf8Lossy(c.data)
    IN  IF \E i \in 1..Len(s) : s[i] = 65533 THEN Err("Utf8Error") ELSE Ok(s)

\* Chunk::as_bytes
AsBytes(c) ==
    LET length == AsU32(Len(c.data))
    IN  ToBeBytes(length) \o TypeBytes(c.chunk_type) \o c.data \o ToBeBytes(c.crc)

\* a parser that reads the reversed checksum bytes with from_be_bytes
ChunkTryFromBeCrc(bytes) ==
    IF Len(bytes) < 12 THEN Err("()")
    ELSE LET length == FromBeBytes(SubSeq(bytes, 1, 4))
             chunk_type == ChunkTypeTryFrom(SubSeq(bytes, 5, 8))
             data == Take(Skip(bytes, 8), AsUsize(length))
             crc == FromBeBytes(Take(Rev(bytes), 4))
         IN  IF ~chunk_type.ok THEN Err("()")
             ELSE IF Len(data) = AsUsize(length)
                     /\ CrcChecksum(chunk_type.val, data) = crc
                  THEN Ok(ChunkNew(chunk_type.val, data))
                  ELSE Err("()")

\* a parser that checks the byte count but not the checksum
ChunkTryFromNoCrc(bytes) ==
    IF Len(bytes) < 12 THEN Err("()")
    ELSE LET length == FromBeBytes(SubSeq(bytes, 1, 4))
             chunk_type == ChunkTypeTryFrom(SubSeq(bytes, 5, 8))
             data == Take(Skip(bytes, 8), AsUsize(length))
         IN  IF ~chunk_type.ok THEN Err("()")
             ELSE IF Len(data) = AsUsize(length)
                  THEN Ok(ChunkNew(chunk_type.val, data))
                  ELSE Err("()")

\* impl TryFrom<&[u8]> for Chunk
ChunkTryFrom(bytes) ==
    IF Len(bytes) < 12 THEN Err("()")
    ELSE LET length == FromBeBytes(SubSeq(bytes, 1, 4))
             chunk_type == ChunkTypeTryFrom(SubSeq(bytes, 5, 8))
             data == Take(Skip(bytes, 8), AsUsize(length))
             crc_bytes == Take(Rev(bytes), 4)
             crc == FromLeBytes(crc_bytes)
         IN  IF ~chunk_type.ok THEN Err("()")
             ELSE IF Len(data) = AsUsize(length)
                     /\ CrcChecksum(chunk_type.val, data) = crc
                  THEN Ok(ChunkNew(chunk_type.val, data))
                  ELSE Err("()")

(***************************************************************************)
(* png.rs: the chunk container.                                            *)
(***************************************************************************)
\* the fixed 8 byte signature
StandardHeader == <<137, 80, 78, 71, 13, 10, 26, 10>>

\* the chunks of a byte stream: Chunk::try_from on the remaining bytes, the
\* cursor advanced by 12 + payload length, until the stream is exhausted; the
\* first failure aborts the whole parse
RECURSIVE ParseChunks(_)
ParseChunks(rest) ==
    IF rest = <<>> THEN Ok(<<>>)
    ELSE LET chunk == ChunkTryFrom(rest)
         IN  IF ~chunk.ok THEN Err("Chunk")
             ELSE LET more == ParseChunks(Skip(rest, 12 + Length(chunk.val)))
                  IN  IF more.ok THEN Ok(<<chunk.val>> \o more.val) ELSE more

\* Png::try_from
PngTryFrom(bytes) ==
    IF Take(bytes, 8) # StandardHeader THEN Err("BadSignature")
    ELSE ParseChunks(Skip(bytes, 8))

\* Png::append_chunk
AppendChunk(cs, chunk) == Append(cs, chunk)

\* positions of the chunks whose type code reads type_text
Matches(cs, type_text) == {i \in 1..Len(cs) : ToString(ChunkTypeOf(cs[i])) = type_text}

First(S) == CHOOSE i \in S : \A j \in S : i <= j

RemoveAt(cs, i) == SubSeq(cs, 1, i - 1) \o SubSeq(cs, i + 1, Len(cs))

\* Png::remove_chunk: the result and the chunk sequence it leaves
RemoveChunk(cs, type_text) ==
    LET found == Matches(cs, type_text)
    IN  IF found = {} THEN [res |-> Err("NotFound"), chunks |-> cs]
        ELSE [res |-> Ok(cs[First(found)]), chunks |-> RemoveAt(cs, First(found))]

\* Png::chunk_by_type
ChunkByType(cs, type_text) ==
    LET found == Matches(cs, type_text)
    IN  IF found = {} THEN None ELSE <<cs[First(found)]>>

\* Png::as_bytes
RECURSIVE ChunksAsBytes(_)
ChunksAsBytes(cs) ==
    IF cs = <<>> THEN <<>> ELSE AsBytes(Head(cs)) \o ChunksAsBytes(Tail(cs))

PngAsBytes(cs) == StandardHeader \o ChunksAsBytes(cs)

(***************************************************************************)
(* Inputs of the model.                                                    *)
(***************************************************************************)
\* bytes around the two letter ranges: NUL 1 @ A Z [ ` a z { 0xFF
ArrayBytes == {0, 49, 64, 65, 90, 91, 96, 97, 122, 123, 255}
\* characters of the command line strings: 1 R t u and e-acute (two bytes)
StrChars == {49, 82, 116, 117, 233}
\* RuSt, ruSt, IEND
RuSt == <<82, 117, 83, 116>>
TypeCodes == {RuSt, <<114, 117, 83, 116>>, <<73, 69, 78, 68>>}
\* "This is where your secret message will be!"
TestMessage ==
    <<84, 104, 105, 115, 32, 105, 115, 32, 119, 104, 101, 114, 101, 32, 121,
      111, 117, 114, 32, 115, 101, 99, 114, 101, 116, 32, 109, 101, 115, 115,
      97, 103, 101, 32, 119, 105, 108, 108, 32, 98, 101, 33>>
DataBytes == {0, 65, 255}
Payloads == SeqsUpTo(DataBytes, MaxData) \cup {TestMessage}
Trails == SeqsUpTo(DataBytes, MaxTrail) \ {<<>>}

\* nothing called yet: the input is chosen, the other state is empty
Idle(inputs) ==
    /\ call = "none" /\ arg \in inputs /\ ret = None
    /\ chunks = <<>> /\ before = None /\ prev = None /\ file = <<>> /\ wrote = FALSE

Input(kind, values) == {[kind |-> kind, v |-> x] : x \in values}

(***************************************************************************)
(* SpecType: one call of a ChunkType constructor or of its accessors.      *)
(***************************************************************************)
TypeInputs ==
    Input("array", [1..4 -> ArrayBytes])
        \cup Input("str", SeqsUpTo(StrChars, MaxStrLen))
        \cup Input("type", {b \in [1..4 -> ArrayBytes] : ChunkTypeTryFrom(b).ok})

TypeTryFrom ==
    /\ call = "none" /\ arg.kind = "array"
    /\ call' = "ChunkType::try_from"
    /\ ret' = ChunkTypeTryFrom(arg.v)
    /\ UNCHANGED <<arg, chunks, before, prev, file, wrote>>

TypeFromStr ==
    /\ call = "none" /\ arg.kind = "str"
    /\ call' = "ChunkType::from_str"
    /\ ret' = ChunkTypeFromStr(arg.v)
    /\ UNCHANGED <<arg, chunks, before, prev, file, wrote>>

TypeFlags ==
    /\ call = "none" /\ arg.kind = "type"
    /\ call' = "ChunkType::flags"
    /\ ret' = Flags(arg.v)
    /\ UNCHANGED <<arg, chunks, before, prev, file, wrote>>

NextType == TypeTryFrom \/ TypeFromStr \/ TypeFlags

SpecType == Idle(TypeInputs) /\ [][NextType]_vars

Letter(b) == b \in (65..90) \cup (97..122)
Ru1t == <<82, 117, 49, 116>>

\* C8: ChunkType::try_from accepts a 4 byte array exactly when all 4 bytes are
\* ASCII letters, and then bytes() is the input; ChunkType::from_str accepts a
\* string exactly when its UTF-8 encoding is 4 bytes long and all of them are
\* ASCII letters; every rejection is an InvalidChunkType.
C8_TypeCodeValidation ==
    /\ call = "ChunkType::try_from" =>
          /\ ret.ok <=> \A i \in 1..4 : Letter(arg.v[i])
          /\ ret.ok => TypeBytes(ret.val) = arg.v
          /\ ~ret.ok => ret.err.kind = "InvalidChunkType"
    /\ call = "ChunkType::from_str" =>
          LET utf8 == StrBytes(arg.v)
          IN  /\ ret.ok <=> (Len(utf8) = 4 /\ \A i \in 1..4 : Letter(utf8[i]))
              /\ ret.ok => TypeBytes(ret.val) = utf8
              /\ ~ret.ok => ret.err.kind = "InvalidChunkType"
              /\ (arg.v = Ru1t \/ Len(arg.v) \in {0, 3, 5}) => ~ret.ok

\* C8 witness: from_str("Ru1t") has been called and was rejected.
C8_Witness ==
    /\ call = "ChunkType::from_str" /\ arg.v = Ru1t
    /\ ~ret.ok /\ ret.err.kind = "InvalidChunkType"

\* C9: is_valid() is true exactly when the third byte is an uppercase ASCII
\* letter and always equals is_reserved_bit_valid(); is_critical, is_public and
\* is_safe_to_copy are the case of byte 0 (upper), byte 1 (upper) and byte 3
\* (lower).
C9_FlagsFollowCase ==
    call = "ChunkType::flags" =>
        /\ ret.is_valid = (arg.v[3] \in 65..90)
        /\ ret.is_valid = ret.is_reserved_bit_valid
        /\ ret.is_critical = (arg.v[1] \in 65..90)
        /\ ret.is_public = (arg.v[2] \in 65..90)
        /\ ret.is_safe_to_copy = (arg.v[4] \in 97..122)

\* C9 witness: the flags of "aaZA" were read: valid although neither critical
\* nor public nor safe to copy.
C9_Witness ==
    /\ call = "ChunkType::flags" /\ arg.v = <<97, 97, 90, 65>>
    /\ ret.is_valid /\ ~ret.is_critical /\ ~ret.is_public /\ ~ret.is_safe_to_copy

(***************************************************************************)
(* SpecChunk: one call of Chunk::as_bytes, or of Chunk::try_from on the    *)
(* encoding of a chunk, on that encoding with its checksum field replaced, *)
(* or on that encoding followed by further bytes.                          *)
(***************************************************************************)
\* byte sequence b with bit k (0 = lowest bit of the last byte) flipped
FlipBit(b, k) ==
    LET i == Len(b) - (k \div 8)
    IN  [b EXCEPT ![i] = XorBits(b[i], 2 ^ (k % 8), 8)]

\* the u32 before u, wrapping
Pred32(u) ==
    IF u.lo > 0 THEN U32(u.hi, u.lo - 1)
    ELSE IF u.hi > 0 THEN U32(u.hi - 1, 65535) ELSE U32(65535, 65535)

\* checksum fields other than the right one: every single bit flip, the value
\* one less, the bytes in little-endian order, all zeros and all ones
WrongFields(crc) ==
    ({FlipBit(ToBeBytes(crc), k) : k \in 0..31}
        \cup {ToBeBytes(Pred32(crc)), Rev(ToBeBytes(crc)),
              <<0, 0, 0, 0>>, <<255, 255, 255, 255>>})
    \ {ToBeBytes(crc)}

ChunkInputs ==
    {[kind |-> k, t |-> t, p |-> p] : k \in {"new", "encoded"}, t \in TypeCodes, p \in Payloads}
    \cup UNION {{[kind |-> "corrupt", t |-> t, p |-> p, field |-> f] :
                    f \in WrongFields(CrcChecksum(t, p))} : t \in TypeCodes, p \in Payloads}
    \cup {[kind |-> "trailing", t |-> t, p |-> p, x |-> x] :
              t \in TypeCodes, p \in Payloads, x \in Trails}

ChunkAsBytes ==
    /\ call = "none" /\ arg.kind = "new"
    /\ call' = "Chunk::as_bytes"
    /\ LET c == ChunkNew(arg.t, arg.p)
       IN  ret' = [bytes |-> AsBytes(c), length |-> Length(c), crc |-> Crc(c)]
    /\ UNCHANGED <<arg, chunks, before, prev, file, wrote>>

TryFromBytes(bytes) ==
    /\ call' = "Chunk::try_from"
    /\ ret' = [bytes |-> bytes, res |-> ChunkTryFrom(bytes)]
    /\ UNCHANGED <<arg, chunks, before, prev, file, wrote>>

ChunkFromEncoded ==
    /\ call = "none" /\ arg.kind = "encoded"
    /\ TryFromBytes(AsBytes(ChunkNew(arg.t, arg.p)))

ChunkFromCorrupt ==
    /\ call = "none" /\ arg.kind = "corrupt"
    /\ LET b == AsBytes(ChunkNew(arg.t, arg.p))
       IN  TryFromBytes(SubSeq(b, 1, Len(b) - 4) \o arg.field)

ChunkFromTrailing ==
    /\ call = "none" /\ arg.kind = "trailing"
    /\ TryFromBytes(AsBytes(ChunkNew(arg.t, arg.p)) \o arg.x)

NextChunk == ChunkAsBytes \/ ChunkFromEncoded \/ ChunkFromCorrupt \/ ChunkFromTrailing

SpecChunk == Idle(ChunkInputs) /\ [][NextChunk]_vars

\* the crc of the test chunk: 2882656334 = 0xABD1D84E
TestCrc == U32(43985, 55374)

\* C2: parsing the encoding of Chunk::new(t, p) succeeds and gives a chunk with
\* type t, payload p, length() the number of bytes of p and crc()
\* crc_checksum(t, p); 42 and 2882656334 for the test chunk.
C2_ChunkRoundTrip ==
    (call = "Chunk::try_from" /\ arg.kind = "encoded") =>
        /\ ret.res.ok
        /\ ChunkTypeOf(ret.res.val) = arg.t
        /\ ret.res.val.data = arg.p
        /\ Length(ret.res.val) = Len(arg.p)
        /\ Crc(ret.res.val) = CrcChecksum(arg.t, arg.p)
        /\ (arg.t = RuSt /\ arg.p = TestMessage) =>
               (Length(ret.res.val) = 42 /\ Crc(ret.res.val) = TestCrc)

\* C2 witness: the test chunk (RuSt, the 42 byte message) was encoded and parsed
\* back.
C2_Witness ==
    /\ call = "Chunk::try_from" /\ arg.kind = "encoded"
    /\ arg.t = RuSt /\ arg.p = TestMessage
    /\ Len(ret.bytes) = 54 /\ ret.res.ok /\ ret.res.val.data = TestMessage

\* C3: an encoding whose checksum field alone was changed to another value is
\* rejected.
C3_CorruptChecksumRejected ==
    (call = "Chunk::try_from" /\ arg.kind = "corrupt") =>
        /\ SubSeq(ret.bytes, Len(ret.bytes) - 3, Len(ret.bytes)) = arg.field
        /\ arg.field # ToBeBytes(CrcChecksum(arg.t, arg.p))
        /\ ~ret.res.ok

\* C3 witness: the test chunk with checksum field 2882656333 was parsed and
\* rejected.
C3_Witness ==
    /\ call = "Chunk::try_from" /\ arg.kind = "corrupt"
    /\ arg.t = RuSt /\ arg.p = TestMessage /\ arg.field = <<171, 209, 216, 77>>
    /\ ~ret.res.ok

\* C7: as_bytes() is the big-endian length n, the 4 type bytes, the payload and
\* the big-endian crc_checksum(t, p), 12 + n bytes in all; length() is n (42 for
\* the test payload).
C7_ExactWireEncoding ==
    call = "Chunk::as_bytes" =>
        LET n == Len(arg.p)
            b == ret.bytes
            c == CrcChecksum(arg.t, arg.p)
        IN  /\ Len(b) = 12 + n
            /\ \A i \in 1..Len(b) : b[i] \in Byte
            /\ b[1] * 256 + b[2] = n \div 65536
            /\ b[3] * 256 + b[4] = n % 65536
            /\ SubSeq(b, 5, 8) = arg.t
            /\ SubSeq(b, 9, 8 + n) = arg.p
            /\ b[9 + n] * 256 + b[10 + n] = c.hi
            /\ b[11 + n] * 256 + b[12 + n] = c.lo
            /\ ret.length = n
            /\ arg.p = TestMessage => ret.length = 42

\* C7 witness: the test chunk was encoded: 54 bytes, length field 42, checksum
\* field AB D1 D8 4E.
C7_Witness ==
    /\ call = "Chunk::as_bytes" /\ arg.t = RuSt /\ arg.p = TestMessage
    /\ SubSeq(ret.bytes, 1, 4) = <<0, 0, 0, 42>>
    /\ SubSeq(ret.bytes, 51, 54) = <<171, 209, 216, 78>>

\* C10 as claimed: the encoding of Chunk::new(t, p) followed by any bytes x is
\* accepted and gives the chunk with type t and payload p.
C10_TrailingBytesAccepted ==
    (call = "Chunk::try_from" /\ arg.kind = "trailing") =>
        /\ ret.res.ok
        /\ ChunkTypeOf(ret.res.val) = arg.t
        /\ ret.res.val.data = arg.p

(***************************************************************************)
(* SpecPng: a container taken through append_chunk and remove_chunk, and   *)
(* serialized and parsed back.                                             *)
(***************************************************************************)
PngTypes == {RuSt, <<114, 117, 83, 116>>}
PngChunks == {ChunkNew(t, p) : t \in PngTypes, p \in {<<>>, <<65>>}}
IEND == <<73, 69, 78, 68>>

InitPng ==
    /\ call = "none" /\ arg = None /\ ret = None
    /\ chunks = <<>> /\ before = None /\ prev = None /\ file = <<>> /\ wrote = FALSE

Remember ==
    /\ before' = [chunks |-> chunks, file |-> file]
    /\ prev' = [call |-> call, arg |-> arg,
                before |-> IF before = None THEN <<>> ELSE before.chunks]

PngAppend(chunk) ==
    /\ Len(chunks) < MaxChunks
    /\ call' = "Png::append_chunk"
    /\ arg' = chunk
    /\ ret' = None
    /\ chunks' = AppendChunk(chunks, chunk)
    /\ Remember
    /\ UNCHANGED <<file, wrote>>

PngRemove(chunk_type) ==
    LET r == RemoveChunk(chunks, ToString(chunk_type))
    IN  /\ call' = "Png::remove_chunk"
        /\ arg' = chunk_type
        /\ ret' = r.res
        /\ chunks' = r.chunks
        /\ Remember
        /\ UNCHANGED <<file, wrote>>

PngRoundTrip ==
    LET bytes == PngAsBytes(chunks)
        parsed == PngTryFrom(bytes)
    IN  /\ call' = "Png::try_from"
        /\ arg' = bytes
        /\ ret' = [res |-> parsed,
                   bytes |-> IF parsed.ok THEN PngAsBytes(parsed.val) ELSE None]
        /\ Remember
        /\ UNCHANGED <<chunks, file, wrote>>

NextPng ==
    \/ \E chunk \in PngChunks : PngAppend(chunk)
    \/ \E chunk_type \in PngTypes \cup {IEND} : PngRemove(chunk_type)
    \/ PngRoundTrip

SpecPng == InitPng /\ [][NextPng]_vars

\* C1 as claimed: parsing the serialization of the container succeeds, gives
\* its chunks in order, and serializes again to the same bytes.
C1_ContainerRoundTrip ==
    call = "Png::try_from" =>
        /\ arg = PngAsBytes(chunks)
        /\ ret.res.ok
        /\ ret.res.val = chunks
        /\ ret.bytes = arg

\* C5: append_chunk(k) followed by remove_chunk(text of k's type): when no
\* chunk of the container had k's type code, k is returned and the container
\* is as before the append; otherwise the first earlier chunk of that type is
\* returned and removed, the others keep their order and k stays last.
C5_AppendThenRemove ==
    (call = "Png::remove_chunk" /\ prev.call = "Png::append_chunk"
        /\ arg = ChunkTypeOf(prev.arg)) =>
        LET k == prev.arg
            c0 == prev.before
            earlier == {i \in 1..Len(c0) : ChunkTypeOf(c0[i]) = ChunkTypeOf(k)}
        IN  IF earlier = {}
            THEN ret = Ok(k) /\ chunks = c0
            ELSE \E i \in earlier :
                    /\ \A j \in earlier : i <= j
                    /\ ret = Ok(c0[i])
                    /\ chunks = SubSeq(c0, 1, i - 1) \o SubSeq(c0, i + 1, Len(c0)) \o <<k>>

\* C5 witness: a chunk of a type new to a non-empty container was appended and
\* then removed by its type text, which gave back the container as it was.
C5_Witness ==
    /\ call = "Png::remove_chunk" /\ prev.call = "Png::append_chunk"
    /\ arg = ChunkTypeOf(prev.arg)
    /\ prev.before # <<>>
    /\ \A i \in 1..Len(prev.before) : ChunkTypeOf(prev.before[i]) # arg
    /\ ret = Ok(prev.arg) /\ chunks = prev.before

(***************************************************************************)
(* main.rs: one action per command; each is a whole run of the program on  *)
(* the backing file.                                                       *)
(***************************************************************************)
\* seek(SeekFrom::Start(0)) and write_all(bytes) on a file opened with
\* read(true).write(true): the bytes replace the start of the file and what
\* lay beyond them stays
WriteFromStart(f, bytes) == bytes \o Skip(f, Len(bytes))

InvalidPng == Err("Invalid PNG file supplied")
CannotFind == Err("Cannot find chunk type")

\* Png::try_from failed: main returns the error
Rejected(name, a) ==
    /\ call' = name
    /\ arg' = a
    /\ ret' = InvalidPng
    /\ chunks' = <<>>
    /\ before' = [chunks |-> <<>>, file |-> file]
    /\ UNCHANGED <<prev, file>>
    /\ wrote' = FALSE

\* the run ends with the container png and, when written, the file holding out
Finished(name, a, parsed, r, png, written, out) ==
    /\ call' = name
    /\ arg' = a
    /\ ret' = r
    /\ chunks' = png
    /\ before' = [chunks |-> parsed, file |-> file]
    /\ UNCHANGED prev
    /\ wrote' = written
    /\ file' = IF written THEN WriteFromStart(file, out) ELSE file

\* a Remove that writes the container back whether or not the chunk was found
RemoveIgnoringNotFound(chunk_type) ==
    LET parsed == PngTryFrom(file)
        a == [chunk_type |-> chunk_type]
    IN  IF ~parsed.ok THEN Rejected("Remove", a)
        ELSE LET r == RemoveChunk(parsed.val, ToString(chunk_type))
             IN  Finished("Remove", a, parsed.val,
                          IF r.res.ok THEN Ok(None) ELSE CannotFind,
                          r.chunks, TRUE, PngAsBytes(r.chunks))

Encode(chunk_type, message) ==
    LET parsed == PngTryFrom(file)
        a == [chunk_type |-> chunk_type, message |-> message]
    IN  IF ~parsed.ok THEN Rejected("Encode", a)
        ELSE /\ Len(parsed.val) < MaxChunks
             /\ LET chunk == ChunkNew(chunk_type, StrBytes(message))
                    png == AppendChunk(parsed.val, chunk)
                IN  Finished("Encode", a, parsed.val, Ok(None), png, TRUE, PngAsBytes(png))

Remove(chunk_type) ==
    LET parsed == PngTryFrom(file)
        a == [chunk_type |-> chunk_type]
    IN  IF ~parsed.ok THEN Rejected("Remove", a)
        ELSE LET r == RemoveChunk(parsed.val, ToString(chunk_type))
             IN  IF ~r.res.ok
                 THEN Finished("Remove", a, parsed.val, CannotFind, r.chunks, FALSE, None)
                 ELSE Finished("Remove", a, parsed.val, Ok(None), r.chunks, TRUE,
                               PngAsBytes(r.chunks))

Decode(chunk_type) ==
    LET parsed == PngTryFrom(file)
        a == [chunk_type |-> chunk_type]
    IN  IF ~parsed.ok THEN Rejected("Decode", a)
        ELSE LET chunk == ChunkByType(parsed.val, ToString(chunk_type))
             IN  Finished("Decode", a, parsed.val,
                          IF chunk = None THEN CannotFind ELSE DataAsString(chunk[1]),
                          parsed.val, FALSE, None)

\* the line printed for a chunk
PrintedLine(c) ==
    [chunk_type |-> ToString(ChunkTypeOf(c)), length |-> Length(c), crc |-> Crc(c),
     message |-> IF DataAsString(c).ok THEN DataAsString(c).val
                 ELSE "0001010 BinGibbrish 000"]

PrintAll ==
    LET parsed == PngTryFrom(file)
    IN  IF ~parsed.ok THEN Rejected("PrintAll", None)
        ELSE Finished("PrintAll", None, parsed.val,
                      Ok([i \in 1..Len(parsed.val) |-> PrintedLine(parsed.val[i])]),
                      parsed.val, FALSE, None)

\* the command line: type codes RuSt and ruSt, messages "" and "A"
ArgTypes == {RuSt, <<114, 117, 83, 116>>}
ArgMessages == {<<>>, <<65>>}

\* the file the program is first run on: an empty container, a container with
\* an IEND chunk, one with a chunk that is not text, and an empty file
InitialFiles ==
    {StandardHeader,
     StandardHeader \o AsBytes(ChunkNew(IEND, <<>>)),
     StandardHeader \o AsBytes(ChunkNew(RuSt, <<255>>)),
     <<>>}

Init ==
    /\ call = "none" /\ arg = None /\ ret = None
    /\ chunks = <<>> /\ before = None /\ prev = None
    /\ file \in InitialFiles /\ wrote = FALSE

Next ==
    \/ \E chunk_type \in ArgTypes, message \in ArgMessages : Encode(chunk_type, message)
    \/ \E chunk_type \in ArgTypes : Remove(chunk_type)
    \/ \E chunk_type \in ArgTypes : Decode(chunk_type)
    \/ PrintAll

Spec == Init /\ [][Next]_vars

\* C4 as claimed: after a successful Encode or Remove the whole file is the
\* serialization of the mutated container.
C4_FileIsSerialization ==
    (call \in {"Encode", "Remove"} /\ ret.ok) => file = PngAsBytes(chunks)

\* C6: a Remove whose type matches no chunk of the parsed container fails with
\* the not-found error, leaves the chunk sequence as parsed and does not write,
\* so the file is as before; Decode and PrintAll never write the file.
C6_FailedRemoveChangesNothing ==
    /\ (call = "Remove" /\ ret # InvalidPng
          /\ \A i \in 1..Len(before.chunks) :
                 ChunkTypeOf(before.chunks[i]) # arg.chunk_type) =>
           /\ ret = CannotFind
           /\ chunks = before.chunks
           /\ ~wrote
           /\ file = before.file
    /\ (call = "Remove" /\ ret = CannotFind) =>
           (chunks = before.chunks /\ ~wrote /\ file = before.file)
    /\ call \in {"Decode", "PrintAll"} => (~wrote /\ file = before.file)

\* C6 witness: Remove ran on a file holding chunks, none of the type asked for,
\* and failed.
C6_Witness ==
    /\ call = "Remove" /\ ret = CannotFind
    /\ before.chunks # <<>> /\ chunks = before.chunks
    /\ ~wrote /\ file = before.file

====
